---------------------------- MODULE Spec2Model ----------------------------
(***************************************************************************)
(* URL failover subsystem of the admin API (src/api/index.js): the ranked  *)
(* view of a channel's stream URLs (GET /api/channels/:id/urls), the batch *)
(* health check (POST .../check-health) and the player's failure report    *)
(* (POST .../report-failure), over one channel row of the channel store.   *)
(*                                                                         *)
(* Conventions.  An optional JavaScript property is a sequence of length   *)
(* 0 (absent / undefined / null) or 1 (the value).  Array indices are the  *)
(* JavaScript ones (0-based); the stored array is a TLA+ sequence, so the  *)
(* entry of index i is urls[i + 1].  Timestamps are readings of a clock    *)
(* that ticks once per accepted request.  An empty list stands for both an *)
(* empty array and a null urls column: every handler reads the column as   *)
(* (channel.urls || []) or rejects both alike.                             *)
(***************************************************************************)
EXTENDS Integers, Sequences, FiniteSets

\* ------------------------------------------------------------------ bounds
\* Longest stored URL list of the single-request specifications.
MaxLen == 3
\* Longest stored URL list of the specification of interleaved requests.
MaxRaceLen == 2
\* The requests that may be in flight at the same time.
Procs == {"r1", "r2"}

\* -------------------------------------------------------- optional values
Absent == <<>>
Some(v) == <<v>>
Has(o) == o # <<>>
Val(o) == o[1]

\* ------------------------------------------------------------ input sets
UrlNames == <<"a", "b", "c", "d", "e">>
\* priority as an administrator may store it: not set, or any integer.
PriorityInputs == {Absent, Some(-1), Some(0), Some(1)}
\* isHealthy as stored: not set, a boolean, or something else (null).
HealthInputs == {"absent", "true", "false", "null"}
\* The error text a player sends with a failure report.
ErrorInputs == {Absent, Some(""), Some("timeout")}
\* HTTP statuses a probe may answer with.
Statuses == {200, 300, 404}

\* A stored entry number i (1-based) as the admin panel creates it.
EntryInputs(i, pris, healths) ==
    [url : {UrlNames[i]}, quality : {"HD"}, priority : pris, isHealthy : healths,
     lastChecked : {Absent}, lastError : {Absent}, error : {Absent},
     statusCode : {Absent}]

RECURSIVE UrlLists(_, _, _)
\* Every stored list of exactly n entries.
UrlLists(n, pris, healths) ==
    IF n = 0 THEN {<<>>}
    ELSE {Append(s, e) : s \in UrlLists(n - 1, pris, healths),
                         e \in EntryInputs(n, pris, healths)}

\* ------------------------------------------------------------ ranked view
\* url.priority || index
DefaultPriority(url, index) ==
    IF Has(url.priority) /\ Val(url.priority) # 0 THEN Val(url.priority) ELSE index

\* A slip: url.isHealthy === true.
StrictlyTrue(url) == url.isHealthy = "true"

\* url.isHealthy !== false
NotFalse(url) == url.isHealthy # "false"

\* The record the .map callback builds for the entry at JavaScript index `index`.
ViewRecord(url, index) ==
    [url |-> url.url, quality |-> url.quality, index |-> index,
     priority |-> DefaultPriority(url, index),
     isHealthy |-> NotFalse(url),
     lastChecked |-> url.lastChecked,
     lastError |-> url.lastError, error |-> url.error,
     statusCode |-> url.statusCode]

MapView(stored) == [i \in 1..Len(stored) |-> ViewRecord(stored[i], i - 1)]

\* A boolean in arithmetic (b.isHealthy - a.isHealthy).
ToNumber(b) == IF b THEN 1 ELSE 0

CompareIgnoringHealth(a, b) == a.priority - b.priority

\* The comparator handed to .sort.
Compare(a, b) ==
    IF a.isHealthy # b.isHealthy
    THEN ToNumber(b.isHealthy) - ToNumber(a.isHealthy)
    ELSE a.priority - b.priority

Front(s) == SubSeq(s, 1, Len(s) - 1)

RECURSIVE Insert(_, _)
\* Stable insertion of x into the sorted t: x goes after every element that
\* does not compare greater.
Insert(t, x) ==
    IF t = <<>> THEN <<x>>
    ELSE IF Compare(t[Len(t)], x) <= 0 THEN Append(t, x)
    ELSE Append(Insert(Front(t), x), t[Len(t)])

RECURSIVE SortView(_)
\* Array.prototype.sort: a stable sort by Compare.
SortView(s) == IF s = <<>> THEN <<>> ELSE Insert(SortView(Front(s)), s[Len(s)])

\* A slip: index is assigned after the sort, as the rank in the view.
SortedUrlsIndexedByRank(stored) ==
    LET v == SortView(MapView(stored)) IN
    [k \in 1..Len(v) |-> [v[k] EXCEPT !.index = k - 1]]

\* sortedUrls
SortedUrls(stored) == SortView(MapView(stored))


\* A slip: the upper bound of the index is not checked against the length.
ValidIndexNoUpper(channelUrls, urlIndex) ==
    Has(urlIndex) /\ Val(urlIndex) >= 0 /\ Len(channelUrls) > 0

\* --------------------------------------------------------- failure report
\* !channel.urls || !channel.urls[urlIndex], negated: urlIndex names an entry.
ValidIndex(channelUrls, urlIndex) ==
    Has(urlIndex) /\ Val(urlIndex) >= 0 /\ Val(urlIndex) < Len(channelUrls)

\* A slip: urlError ?? 'Player reported failure' (only a missing error defaults).
LastErrorNullish(urlError) ==
    IF Has(urlError) THEN Val(urlError) ELSE "Player reported failure"

\* urlError || 'Player reported failure'
LastError(urlError) ==
    IF Has(urlError) /\ Val(urlError) # "" THEN Val(urlError)
    ELSE "Player reported failure"

\* A slip: isHealthy of every entry is rewritten as idx !== urlIndex.
MarkOnlyUnhealthy(channelUrls, urlIndex, urlError, date) ==
    [i \in 1..Len(channelUrls) |->
        IF i = Val(urlIndex) + 1
        THEN [channelUrls[i] EXCEPT !.isHealthy = "false",
                                    !.lastChecked = Some(date),
                                    !.lastError = Some(LastError(urlError))]
        ELSE [channelUrls[i] EXCEPT !.isHealthy = "true"]]

\* A slip: the report flips isHealthy of the entry instead of clearing it.
MarkToggled(channelUrls, urlIndex, urlError, date) ==
    [channelUrls EXCEPT ![Val(urlIndex) + 1] =
        [@ EXCEPT !.isHealthy = IF @ = "false" THEN "true" ELSE "false",
                  !.lastChecked = Some(date),
                  !.lastError = Some(LastError(urlError))]]

\* updatedUrls: a copy of channel.urls with the entry at urlIndex replaced.
MarkUnhealthy(channelUrls, urlIndex, urlError, date) ==
    [channelUrls EXCEPT ![Val(urlIndex) + 1] =
        [@ EXCEPT !.isHealthy = "false",
                  !.lastChecked = Some(date),
                  !.lastError = Some(LastError(urlError))]]

\* The callback of .find and .filter: idx !== urlIndex && url.isHealthy !== false
OtherHealthy(updated, urlIndex, idx) ==
    idx # Val(urlIndex) /\ NotFalse(updated[idx + 1])

RECURSIVE FindFrom(_, _, _)
\* updatedUrls.find(...) scanning from JavaScript index idx.
FindFrom(updated, urlIndex, idx) ==
    IF idx >= Len(updated) THEN Absent
    ELSE IF OtherHealthy(updated, urlIndex, idx) THEN Some(updated[idx + 1])
    ELSE FindFrom(updated, urlIndex, idx + 1)

\* A slip: the next URL taken from the ranked view instead of the stored order.
NextHealthyUrlRanked(updated, urlIndex) ==
    LET v == SortedUrls(updated)
        c == {i \in 1..Len(v) : OtherHealthy(updated, urlIndex, v[i].index)} IN
    IF c = {} THEN Absent
    ELSE Some(updated[v[CHOOSE i \in c : \A j \in c : i <= j].index + 1])

\* A slip: the next URL is the first entry other than the reported one,
\* whatever its health.
NextUrlAnyHealth(updated, urlIndex) ==
    LET c == {i \in 1..Len(updated) : i - 1 # Val(urlIndex)} IN
    IF c = {} THEN Absent
    ELSE Some(updated[CHOOSE i \in c : \A j \in c : i <= j])

\* nextHealthyUrl || null
NextHealthyUrl(updated, urlIndex) == FindFrom(updated, urlIndex, 0)

RECURSIVE FilterCount(_, _, _)
\* updatedUrls.filter(...).length, counting from JavaScript index idx.
FilterCount(updated, urlIndex, idx) ==
    IF idx >= Len(updated) THEN 0
    ELSE (IF OtherHealthy(updated, urlIndex, idx) THEN 1 ELSE 0)
         + FilterCount(updated, urlIndex, idx + 1)

\* A slip: only entries whose isHealthy is true are counted.
RemainingStrictlyTrue(updated, urlIndex) ==
    Cardinality({i \in 1..Len(updated) :
                    i - 1 # Val(urlIndex) /\ updated[i].isHealthy = "true"})

RemainingHealthyUrls(updated, urlIndex) == FilterCount(updated, urlIndex, 0)

\* ----------------------------------------------------------- health check
\* A probe that has not settled, one that answered, one that threw.
Pending == [kind |-> "pending", status |-> 0]
Answered(s) == [kind |-> "response", status |-> s]
Threw == [kind |-> "error", status |-> 0]
Outcomes == {Answered(s) : s \in Statuses} \cup {Threw}

\* A slip: redirects taken as healthy.
ResponseOkTo399(status) == status >= 200 /\ status <= 399

\* response.ok of the Fetch API: the status is in 200..299.
ResponseOk(status) == status >= 200 /\ status <= 299

\* A slip: a probe that throws leaves isHealthy as it was read.
ProbeResultThrowKeeps(url, outcome, date) ==
    IF outcome.kind = "response"
    THEN [url EXCEPT !.isHealthy = IF ResponseOk(outcome.status) THEN "true" ELSE "false",
                     !.lastChecked = Some(date),
                     !.statusCode = Some(outcome.status)]
    ELSE [url EXCEPT !.lastChecked = Some(date),
                     !.error = Some("request failed")]

\* A slip: the entry is rebuilt from its url alone instead of being spread.
ProbeResultNoSpread(url, outcome, date) ==
    LET bare == [url EXCEPT !.quality = "", !.priority = Absent] IN
    IF outcome.kind = "response"
    THEN [bare EXCEPT !.isHealthy = IF ResponseOk(outcome.status) THEN "true" ELSE "false",
                      !.lastChecked = Some(date),
                      !.statusCode = Some(outcome.status)]
    ELSE [bare EXCEPT !.isHealthy = "false",
                      !.lastChecked = Some(date),
                      !.error = Some("request failed")]

\* A different design: a probe that throws marks the entry unhealthy only when
\* an earlier probe of it had thrown already.
ProbeResultSecondFailure(url, outcome, date) ==
    IF outcome.kind = "response"
    THEN [url EXCEPT !.isHealthy = IF ResponseOk(outcome.status) THEN "true" ELSE "false",
                     !.lastChecked = Some(date),
                     !.statusCode = Some(outcome.status)]
    ELSE [url EXCEPT !.isHealthy = IF Has(url.error) THEN "false" ELSE url.isHealthy,
                     !.lastChecked = Some(date),
                     !.error = Some("request failed")]

\* A different design: a probe that answers clears the entry's error records,
\* and a probe that throws clears its statusCode.
ProbeResultClearing(url, outcome, date) ==
    IF outcome.kind = "response"
    THEN [url EXCEPT !.isHealthy = IF ResponseOk(outcome.status) THEN "true" ELSE "false",
                     !.lastChecked = Some(date),
                     !.statusCode = Some(outcome.status),
                     !.lastError = Absent, !.error = Absent]
    ELSE [url EXCEPT !.isHealthy = "false",
                     !.lastChecked = Some(date),
                     !.error = Some("request failed"),
                     !.statusCode = Absent]

\* What the async callback of .map returns for one entry.
ProbeResult(url, outcome, date) ==
    IF outcome.kind = "response"
    THEN [url EXCEPT !.isHealthy = IF ResponseOk(outcome.status) THEN "true" ELSE "false",
                     !.lastChecked = Some(date),
                     !.statusCode = Some(outcome.status)]
    ELSE [url EXCEPT !.isHealthy = "false",
                     !.lastChecked = Some(date),
                     !.error = Some("request failed")]

\* u => u.isHealthy as a filter callback (truthiness).
Truthy(u) == u.isHealthy = "true"

\* A slip: only the entries whose probe threw are counted as unhealthy.
HealthySummaryByError(updated) ==
    [total |-> Len(updated),
     healthy |-> Cardinality({i \in 1..Len(updated) : Truthy(updated[i])}),
     unhealthy |-> Cardinality({i \in 1..Len(updated) : Has(updated[i].error)})]

HealthySummary(updated) ==
    [total |-> Len(updated),
     healthy |-> Cardinality({i \in 1..Len(updated) : Truthy(updated[i])}),
     unhealthy |-> Cardinality({i \in 1..Len(updated) : ~Truthy(updated[i])})]

\* ------------------------------------------------------------------ state
VARIABLES
    urls,      \* channel.urls as the channel store holds it
    now,       \* the clock
    version,   \* number of writes the store has applied to channel.urls
    quota,     \* number of requests still to be accepted in this behaviour
    req,       \* the requests: each one's position and local variables
    env,       \* process.env as read when the module was loaded
    matches,   \* the matches table: broadcastChannels of each row
    meta,      \* row 1 of the sync_metadata table
    job,       \* the request that reads or synchronizes the matches table
    linked     \* broadcastChannels as /api/link last set them, or as first stored

\* The variables of the matches side of the API.
matchVars == <<matches, meta, job, linked>>

vars == <<urls, now, version, quota, req, env, matchVars>>

\* Header values of X-Admin-Passkey: none, empty, the usual one, another.
PasskeyInputs == {Absent, Some(""), Some("secret"), Some("guess")}

\* process.env with ADMIN_PANEL_PASSKEY unset, empty or set.
EnvInputs == {[ADMIN_PANEL_PASSKEY |-> k] : k \in {Absent, Some(""), Some("secret")}}

ConfiguredEnv == [ADMIN_PANEL_PASSKEY |-> Some("secret")]

\* A slip: passkey === ADMIN_PANEL_PASSKEY without the test that a passkey
\* was sent.
CheckAdminPasskeyEqualOnly(passkey) == passkey = env.ADMIN_PANEL_PASSKEY

\* checkAdminPasskey: passkey && passkey === ADMIN_PANEL_PASSKEY
CheckAdminPasskey(passkey) ==
    Has(passkey) /\ Val(passkey) # "" /\ passkey = env.ADMIN_PANEL_PASSKEY

\* Some header value passes the middleware, so that next() runs the route.
Authorised == \E passkey \in PasskeyInputs : CheckAdminPasskey(passkey)

NoSummary == [total |-> 0, healthy |-> 0, unhealthy |-> 0]

\* No response sent yet.
NoRes ==
    [status |-> 0, urls |-> <<>>, nextUrl |-> Absent, remainingHealthyUrls |-> 0,
     healthySummary |-> NoSummary]

\* A request slot with no request in it.
Idle ==
    [pc |-> "idle", op |-> "none", urlIndex |-> Absent, urlError |-> Absent,
     channel |-> <<>>, updatedUrls |-> <<>>, probes |-> <<>>, res |-> NoRes,
     callTime |-> 0, readVer |-> 0, writeVer |-> 0,
     error |-> "none", updateError |-> FALSE, passkey |-> Absent]

\* A slot takes a new request once the previous one has been answered.
Free(p) == req[p].pc \in {"idle", "done"} /\ quota > 0

\* Accepting a request: it passed the middleware, and the clock ticks.
Accept ==
    /\ Authorised
    /\ now' = now + 1
    /\ quota' = quota - 1
    /\ UNCHANGED <<env, matchVars>>

\* The slot as it is when the handler's select has returned.
Started(kind) ==
    [Idle EXCEPT !.op = kind, !.channel = urls, !.callTime = now + 1,
                 !.readVer = version, !.passkey = env.ADMIN_PANEL_PASSKEY]

\* A slip: the handler saves the list in the order of the view it computed.
GetUrlsSavingOrder(p) ==
    /\ Free(p)
    /\ Accept
    /\ req' = [req EXCEPT ![p] =
                 [Started("urls") EXCEPT
                    !.pc = "done", !.writeVer = version + 1,
                    !.res = [NoRes EXCEPT !.status = 200,
                                          !.urls = SortedUrls(urls)]]]
    /\ urls' = [k \in 1..Len(urls) |-> urls[SortedUrls(urls)[k].index + 1]]
    /\ version' = version + 1

\* ---------------------------------------------------------------- actions
\* GET /api/channels/:id/urls
GetUrls(p) ==
    /\ Free(p)
    /\ Accept
    /\ req' = [req EXCEPT ![p] =
                 [Started("urls") EXCEPT
                    !.pc = "done",
                    !.res = [NoRes EXCEPT !.status = 200,
                                          !.urls = SortedUrls(urls)]]]
    /\ UNCHANGED <<urls, version>>

\* POST /api/channels/:id/report-failure, up to the await of the update.
ReportFailureRead(p, urlIndex, urlError) ==
    /\ Free(p)
    /\ Accept
    /\ req' = [req EXCEPT ![p] =
                 IF ~ValidIndex(urls, urlIndex)
                 THEN [Started("report") EXCEPT
                         !.pc = "done", !.urlIndex = urlIndex, !.urlError = urlError,
                         !.res = [NoRes EXCEPT !.status = 400]]
                 ELSE [Started("report") EXCEPT
                         !.pc = "report_update", !.urlIndex = urlIndex,
                         !.urlError = urlError,
                         !.updatedUrls = MarkUnhealthy(urls, urlIndex, urlError, now + 1)]]
    /\ UNCHANGED <<urls, version>>

\* A different design: the update replaces only the reported entry of the
\* stored list instead of the whole list.
ReportFailureUpdateEntry(p) ==
    /\ req[p].pc = "report_update"
    /\ urls' = [urls EXCEPT ![Val(req[p].urlIndex) + 1] =
                    req[p].updatedUrls[Val(req[p].urlIndex) + 1]]
    /\ version' = version + 1
    /\ req' = [req EXCEPT ![p] =
                 [@ EXCEPT
                    !.pc = "done", !.writeVer = version + 1,
                    !.res = [NoRes EXCEPT
                       !.status = 200,
                       !.nextUrl = NextHealthyUrl(req[p].updatedUrls, req[p].urlIndex),
                       !.remainingHealthyUrls =
                           RemainingHealthyUrls(req[p].updatedUrls, req[p].urlIndex)]]]
    /\ UNCHANGED <<now, quota, env, matchVars>>

\* report-failure: the update reaches the store and the response is sent.
ReportFailureUpdate(p) ==
    /\ req[p].pc = "report_update"
    /\ urls' = req[p].updatedUrls
    /\ version' = version + 1
    /\ req' = [req EXCEPT ![p] =
                 [@ EXCEPT
                    !.pc = "done", !.writeVer = version + 1,
                    !.res = [NoRes EXCEPT
                       !.status = 200,
                       !.nextUrl = NextHealthyUrl(req[p].updatedUrls, req[p].urlIndex),
                       !.remainingHealthyUrls =
                           RemainingHealthyUrls(req[p].updatedUrls, req[p].urlIndex)]]]
    /\ UNCHANGED <<now, quota, env, matchVars>>

\* POST /api/channels/:id/check-health, up to the start of the probes.
CheckHealthRead(p) ==
    /\ Free(p)
    /\ Accept
    /\ req' = [req EXCEPT ![p] =
                 [Started("check") EXCEPT
                    !.pc = "check_probe",
                    !.updatedUrls = urls,
                    !.probes = [i \in 1..Len(urls) |-> Pending]]]
    /\ UNCHANGED <<urls, version>>

\* check-health: the probe of the entry at JavaScript index idx settles.
CheckHealthProbe(p, idx, outcome) ==
    /\ req[p].pc = "check_probe"
    /\ idx + 1 \in DOMAIN req[p].probes
    /\ req[p].probes[idx + 1] = Pending
    /\ req' = [req EXCEPT ![p] =
                 [@ EXCEPT
                    !.probes[idx + 1] = outcome,
                    !.updatedUrls[idx + 1] =
                        ProbeResult(req[p].channel[idx + 1], outcome, now)]]
    /\ UNCHANGED <<urls, now, version, quota, env, matchVars>>

\* A slip: the update runs as soon as one probe has settled (Promise.race for
\* Promise.all); the entries still being probed are written as they were read.
CheckHealthUpdateFirstSettled(p) ==
    /\ req[p].pc = "check_probe"
    /\ \/ req[p].probes = <<>>
       \/ \E i \in DOMAIN req[p].probes : req[p].probes[i] # Pending
    /\ urls' = req[p].updatedUrls
    /\ version' = version + 1
    /\ req' = [req EXCEPT ![p] =
                 [@ EXCEPT
                    !.pc = "done", !.writeVer = version + 1,
                    !.res = [NoRes EXCEPT
                       !.status = 200,
                       !.healthySummary = HealthySummary(req[p].updatedUrls)]]]
    /\ UNCHANGED <<now, quota, env, matchVars>>

\* check-health: Promise.all has resolved; the update reaches the store and the
\* response is sent.
CheckHealthUpdate(p) ==
    /\ req[p].pc = "check_probe"
    /\ \A i \in DOMAIN req[p].probes : req[p].probes[i] # Pending
    /\ urls' = req[p].updatedUrls
    /\ version' = version + 1
    /\ req' = [req EXCEPT ![p] =
                 [@ EXCEPT
                    !.pc = "done", !.writeVer = version + 1,
                    !.res = [NoRes EXCEPT
                       !.status = 200,
                       !.healthySummary = HealthySummary(req[p].updatedUrls)]]]
    /\ UNCHANGED <<now, quota, env, matchVars>>

\* The errors the select of a handler may return instead of the channel row:
\* no row has the id (.single() finds none), or the store cannot be reached.
SelectErrors == {"not_found", "unavailable"}

\* The slot of a handler whose select returned an error: if (error) return
\* res.status(404).json({ error: 'Channel not found' }).
SelectError(kind, failure) ==
    [Idle EXCEPT !.op = kind, !.pc = "done", !.error = failure,
                 !.callTime = now + 1, !.readVer = version,
                 !.passkey = env.ADMIN_PANEL_PASSKEY,
                 !.res = [NoRes EXCEPT !.status = 404]]

\* GET /api/channels/:id/urls when the select returns an error.
GetUrlsNoChannel(p, failure) ==
    /\ Free(p)
    /\ Accept
    /\ req' = [req EXCEPT ![p] = SelectError("urls", failure)]
    /\ UNCHANGED <<urls, version>>

\* A slip: a health check that takes the missing row for an empty channel.
CheckHealthNoChannelAsEmpty(p, failure) ==
    /\ Free(p)
    /\ Accept
    /\ req' = [req EXCEPT ![p] =
                 [Idle EXCEPT !.op = "check", !.pc = "check_probe", !.error = failure,
                              !.callTime = now + 1, !.readVer = version]]
    /\ UNCHANGED <<urls, version>>

\* POST /api/channels/:id/check-health when the select returns an error.
CheckHealthNoChannel(p, failure) ==
    /\ Free(p)
    /\ Accept
    /\ req' = [req EXCEPT ![p] = SelectError("check", failure)]
    /\ UNCHANGED <<urls, version>>

\* POST /api/channels/:id/report-failure when the select returns an error.
ReportFailureNoChannel(p, failure) ==
    /\ Free(p)
    /\ Accept
    /\ req' = [req EXCEPT ![p] = SelectError("report", failure)]
    /\ UNCHANGED <<urls, version>>

\* A slip: the thrown updateError is not caught; the handler ends without
\* sending a response.
UpdateErrorUncaught(p) ==
    [req[p] EXCEPT !.pc = "crashed", !.updateError = TRUE]

\* The slot of a handler whose update returned an error: throw updateError,
\* caught as res.status(500).json({ error: e.message }).
UpdateError(p) ==
    [req[p] EXCEPT !.pc = "done", !.updateError = TRUE,
                   !.res = [NoRes EXCEPT !.status = 500]]

\* A slip: updateError is not looked at and the success response is sent.
ReportFailureUpdateFailsUnnoticed(p) ==
    /\ req[p].pc = "report_update"
    /\ req' = [req EXCEPT ![p] =
                 [@ EXCEPT
                    !.pc = "done", !.updateError = TRUE,
                    !.res = [NoRes EXCEPT
                       !.status = 200,
                       !.nextUrl = NextHealthyUrl(req[p].updatedUrls, req[p].urlIndex),
                       !.remainingHealthyUrls =
                           RemainingHealthyUrls(req[p].updatedUrls, req[p].urlIndex)]]]
    /\ UNCHANGED <<urls, now, version, quota, env, matchVars>>

\* report-failure: the store rejects the update, which changes nothing.
ReportFailureUpdateFails(p) ==
    /\ req[p].pc = "report_update"
    /\ req' = [req EXCEPT ![p] = UpdateError(p)]
    /\ UNCHANGED <<urls, now, version, quota, env, matchVars>>

\* check-health: the store rejects the update, which changes nothing.
CheckHealthUpdateFails(p) ==
    /\ req[p].pc = "check_probe"
    /\ \A i \in DOMAIN req[p].probes : req[p].probes[i] # Pending
    /\ req' = [req EXCEPT ![p] = UpdateError(p)]
    /\ UNCHANGED <<urls, now, version, quota, env, matchVars>>

\* No row, and a row of the matches table with its broadcastChannels.
NoRow == [exists |-> FALSE, broadcastChannels |-> <<>>]
Row(channelIds) == [exists |-> TRUE, broadcastChannels |-> channelIds]

MatchIds == {"m1", "m2"}

\* No request on the matches side.
IdleJob ==
    [pc |-> "idle", route |-> "none", seq |-> 0, triggered |-> FALSE,
     allNewMatches |-> {}, existingMap |-> [m \in MatchIds |-> NoRow],
     result |-> "none", status |-> 0, doneAt |-> 0]

\* What the failover specifications leave alone: the passkey is configured,
\* the matches table is empty and never synchronized.
InitRest ==
    /\ env = ConfiguredEnv
    /\ matches = [m \in MatchIds |-> NoRow]
    /\ meta = [last_successful_sync |-> Absent]
    /\ job = IdleJob
    /\ linked = [m \in MatchIds |-> Absent]

\* ------------------------------------------------------- specifications
\* urlIndex as a player may send it: missing, or any integer.
UrlIndexInputs(maxLen) == {Absent} \cup {Some(i) : i \in -1..maxLen}

InitReq == [p \in Procs |-> Idle]

\* An entry as the admin panel adds it: priority is its position, isHealthy true.
PanelEntry(i) ==
    [url |-> UrlNames[i], quality |-> "HD", priority |-> Some(i - 1),
     isHealthy |-> "true", lastChecked |-> Absent, lastError |-> Absent,
     error |-> Absent, statusCode |-> Absent]

PanelList(n) == [i \in 1..n |-> PanelEntry(i)]

\* Request-level specification: a channel as the admin panel saved it, and two
\* requests of the failover endpoints in any interleaving.
Init ==
    /\ urls \in {PanelList(n) : n \in 0..MaxRaceLen}
    /\ now = 0
    /\ version = 0
    /\ quota = Cardinality(Procs)
    /\ req = InitReq
    /\ InitRest

Next ==
    \E p \in Procs :
        \/ GetUrls(p)
        \/ \E urlIndex \in UrlIndexInputs(MaxRaceLen), urlError \in ErrorInputs :
               ReportFailureRead(p, urlIndex, urlError)
        \/ ReportFailureUpdate(p)
        \/ CheckHealthRead(p)
        \/ \E idx \in 0..(MaxRaceLen - 1), outcome \in Outcomes :
               CheckHealthProbe(p, idx, outcome)
        \/ CheckHealthUpdate(p)

Spec == Init /\ [][Next]_vars

\* Ranked-view specification: any stored list, one GET /api/channels/:id/urls.
InitRank ==
    /\ urls \in UNION {UrlLists(n, PriorityInputs, HealthInputs) : n \in 0..MaxLen}
    /\ now = 0
    /\ version = 0
    /\ quota = 1
    /\ req = InitReq
    /\ InitRest

NextRank == GetUrls("r1")

SpecRank == InitRank /\ [][NextRank]_vars

\* Failure-report specification: any stored list, then one request, a failure
\* report with any index and error text or a read of the ranked view.
InitReport ==
    /\ urls \in UNION {UrlLists(n, {Absent, Some(-1)}, HealthInputs) : n \in 0..MaxLen}
    /\ now = 0
    /\ version = 0
    /\ quota = 1
    /\ req = InitReq
    /\ InitRest

NextReport ==
    \/ GetUrls("r1")
    \/ \E urlIndex \in UrlIndexInputs(MaxLen), urlError \in ErrorInputs :
           ReportFailureRead("r1", urlIndex, urlError)
    \/ ReportFailureUpdate("r1")

SpecReport == InitReport /\ [][NextReport]_vars

\* Store-failure specification: a channel as the admin panel saved it, then one
\* request of a failover endpoint, whose select or update may return an error.
InitFail ==
    /\ urls \in {PanelList(n) : n \in 0..MaxLen}
    /\ now = 0
    /\ version = 0
    /\ quota = 1
    /\ req = InitReq
    /\ InitRest

NextFail ==
    \/ GetUrls("r1")
    \/ \E urlIndex \in UrlIndexInputs(MaxLen), urlError \in ErrorInputs :
           ReportFailureRead("r1", urlIndex, urlError)
    \/ ReportFailureUpdate("r1")
    \/ CheckHealthRead("r1")
    \/ \E idx \in 0..(MaxLen - 1), outcome \in Outcomes :
           CheckHealthProbe("r1", idx, outcome)
    \/ CheckHealthUpdate("r1")
    \/ \E failure \in SelectErrors :
           \/ GetUrlsNoChannel("r1", failure)
           \/ CheckHealthNoChannel("r1", failure)
           \/ ReportFailureNoChannel("r1", failure)
    \/ ReportFailureUpdateFails("r1")
    \/ CheckHealthUpdateFails("r1")

SpecFail == InitFail /\ [][NextFail]_vars

\* POST /api/channels/:id/report-failure with urlIndex taken from the index
\* field of record number k of the ranked view request q was answered with.
ReportViewRecord(p, q, k, urlError) ==
    /\ req[q].pc = "done" /\ req[q].op = "urls" /\ req[q].res.status = 200
    /\ k \in DOMAIN req[q].res.urls
    /\ ReportFailureRead(p, Some(req[q].res.urls[k].index), urlError)

\* Report-by-index specification: any stored list, one read of the ranked
\* view, then one failure report of a record of that view.
InitByIndex ==
    /\ urls \in UNION {UrlLists(n, {Absent, Some(-1)}, HealthInputs) : n \in 0..MaxLen}
    /\ now = 0
    /\ version = 0
    /\ quota = 2
    /\ req = InitReq
    /\ InitRest

NextByIndex ==
    \/ GetUrls("r1")
    \/ \E k \in 1..MaxLen, urlError \in ErrorInputs :
           ReportViewRecord("r2", "r1", k, urlError)
    \/ ReportFailureUpdate("r2")

SpecByIndex == InitByIndex /\ [][NextByIndex]_vars

\* The lists an administrator saves from the channel form: entries as the form
\* creates them, one added or removed at the end.
PutInputs == {PanelList(n) : n \in 0..MaxRaceLen}

\* PUT /api/channels/:id with body { urls: newUrls }: one update of the row.
\* An update the store rejects is answered 500 and changes nothing.
PutChannel(newUrls) ==
    /\ quota > 0
    /\ Accept
    /\ urls' = newUrls
    /\ version' = version + 1
    /\ UNCHANGED req

\* Administrator specification: a channel as the admin panel saved it, then
\* health checks and failure reports interleaved with administrator updates.
InitAdmin ==
    /\ urls \in {PanelList(n) : n \in 0..MaxRaceLen}
    /\ now = 0
    /\ version = 0
    /\ quota = 3
    /\ req = InitReq
    /\ InitRest

NextAdmin ==
    \/ \E newUrls \in PutInputs : PutChannel(newUrls)
    \/ \E urlIndex \in UrlIndexInputs(MaxRaceLen), urlError \in ErrorInputs :
           ReportFailureRead("r1", urlIndex, urlError)
    \/ ReportFailureUpdate("r1")
    \/ CheckHealthRead("r1")
    \/ \E idx \in 0..(MaxRaceLen - 1), outcome \in Outcomes :
           CheckHealthProbe("r1", idx, outcome)
    \/ CheckHealthUpdate("r1")

SpecAdmin == InitAdmin /\ [][NextAdmin]_vars

\* The store-failure specification with its scheduling: a probe that is
\* pending settles (fetch answers, fails or reaches its timeout), and an
\* update that was issued returns, with a row or with an error.
FairFail ==
    /\ WF_vars(\E idx \in 0..(MaxLen - 1), outcome \in Outcomes :
                   CheckHealthProbe("r1", idx, outcome))
    /\ WF_vars(CheckHealthUpdate("r1") \/ CheckHealthUpdateFails("r1"))
    /\ WF_vars(ReportFailureUpdate("r1") \/ ReportFailureUpdateFails("r1"))

SpecFailLive == InitFail /\ [][NextFail]_vars /\ FairFail

\* startPlayback of the documented player: the ranked view is fetched once.
StartPlayback(q) ==
    /\ req[q].pc = "idle"
    /\ GetUrls(q)

\* currentIndex of the documented player: 0 after startPlayback, advanced by
\* one after each report it sent through request p.
CurrentIndex(p) == IF req[p].op = "report" THEN Val(req[p].urlIndex) + 1 ELSE 0

\* handlePlaybackError of the documented player: urls[currentIndex] of the
\* list fetched through request q failed to play, and report-failure is posted
\* with urlIndex = currentIndex and the error's message.
HandlePlaybackError(p, q, urlError) ==
    /\ req[q].pc = "done" /\ req[q].op = "urls" /\ req[q].res.status = 200
    /\ CurrentIndex(p) < Len(req[q].res.urls)
    /\ ReportFailureRead(p, Some(CurrentIndex(p)), urlError)

\* Player specification: any stored list, then the documented player: one
\* fetch of the ranked view, then a failure report per playback error.
InitPlayer ==
    /\ urls \in UNION {UrlLists(n, {Absent, Some(-1)}, HealthInputs) : n \in 0..MaxLen}
    /\ now = 0
    /\ version = 0
    /\ quota = MaxLen + 1
    /\ req = InitReq
    /\ InitRest

NextPlayer ==
    \/ StartPlayback("r1")
    \/ HandlePlaybackError("r2", "r1", Some("timeout"))
    \/ ReportFailureUpdate("r2")

SpecPlayer == InitPlayer /\ [][NextPlayer]_vars

\* POST /api/channels/:id/report-failure by a caller that sends its reports
\* one after the other: the previous report has been answered, and the
\* requests take the slots in turn.
ReportInTurn(p, urlIndex, urlError) ==
    /\ \A q \in Procs : req[q].pc \in {"idle", "done"}
    /\ \A q \in Procs : req[p].callTime <= req[q].callTime
    /\ ReportFailureRead(p, urlIndex, urlError)

\* Successive-reports specification: any stored list without priorities, then
\* up to MaxLen failure reports, each sent after the answer to the one before.
InitInTurn ==
    /\ urls \in UNION {UrlLists(n, {Absent}, HealthInputs) : n \in 0..MaxLen}
    /\ now = 0
    /\ version = 0
    /\ quota = MaxLen
    /\ req = InitReq
    /\ InitRest

NextInTurn ==
    \E p \in Procs :
        \/ \E i \in 0..(MaxLen - 1) : ReportInTurn(p, Some(i), Absent)
        \/ ReportFailureUpdate(p)

SpecInTurn == InitInTurn /\ [][NextInTurn]_vars

\* The routes mounted after app.use('/api', checkAdminPasskey).
Routes == {"urls", "check", "report", "put", "link", "matches", "sync"}

\* A request to a route under /api whose header does not pass the middleware:
\* res.status(401).json({ error: 'Unauthorized' }), and next() is not called.
Unauthorized(p, route, passkey) ==
    /\ Free(p)
    /\ ~CheckAdminPasskey(passkey)
    /\ now' = now + 1
    /\ quota' = quota - 1
    /\ req' = [req EXCEPT ![p] =
                 [Idle EXCEPT !.op = route, !.pc = "done", !.passkey = passkey,
                              !.callTime = now + 1, !.readVer = version,
                              !.res = [NoRes EXCEPT !.status = 401]]]
    /\ UNCHANGED <<urls, version, env, matchVars>>

\* Middleware specification: a passkey configured or not, a channel as the
\* admin panel saved it, then two requests with any X-Admin-Passkey header.
InitAuth ==
    /\ urls \in {PanelList(n) : n \in 0..MaxLen}
    /\ now = 0
    /\ version = 0
    /\ quota = 2
    /\ req = InitReq
    /\ env \in EnvInputs
    /\ matches = [m \in MatchIds |-> NoRow]
    /\ meta = [last_successful_sync |-> Absent]
    /\ job = IdleJob
    /\ linked = [m \in MatchIds |-> Absent]

NextAuth ==
    \/ \E route \in Routes, passkey \in PasskeyInputs : Unauthorized("r1", route, passkey)
    \/ GetUrls("r1")
    \/ \E urlIndex \in UrlIndexInputs(MaxLen), urlError \in ErrorInputs :
           ReportFailureRead("r1", urlIndex, urlError)
    \/ ReportFailureUpdate("r1")
    \/ CheckHealthRead("r1")
    \/ \E idx \in 0..(MaxLen - 1), outcome \in Outcomes :
           CheckHealthProbe("r1", idx, outcome)
    \/ CheckHealthUpdate("r1")

SpecAuth == InitAuth /\ [][NextAuth]_vars

\* ------------------------------------------------------------ matches side
\* Hours the clock may reach.
MaxHours == 4

SYNC_INTERVAL_HOURS == 3

\* The lists of channel ids /api/link is called with.
ChannelIdInputs == {<<"c1">>, <<"c2">>}

\* What the three fetchMatchesByDate calls give: the matches found, or a throw.
FetchOutcomes ==
    {[ok |-> TRUE, found |-> s] : s \in SUBSET MatchIds}
        \cup {[ok |-> FALSE, found |-> {}]}

\* hoursDiff > SYNC_INTERVAL_HOURS, hoursDiff being Infinity without lastSync.
SyncNeeded(lastSync) ==
    ~Has(lastSync) \/ now - Val(lastSync) > SYNC_INTERVAL_HOURS

\* The rest of the matches side and the failover side, left alone by a step
\* of the matches job.
JobFrame == UNCHANGED <<urls, now, version, quota, req, env, linked>>

\* synchronizeMatchesData has returned { success } to its caller: /api/sync
\* answers 200 or 500, /api/matches goes on to select the matches.
Returned(j, result) ==
    IF j.route = "sync"
    THEN [j EXCEPT !.pc = "done", !.result = result,
                   !.status = IF result = "success" THEN 200 ELSE 500,
                   !.doneAt = now]
    ELSE [j EXCEPT !.pc = "matches_select", !.result = result]

\* POST /api/sync
SyncRequest ==
    /\ job.pc \in {"idle", "done"}
    /\ quota > 0
    /\ Authorised
    /\ quota' = quota - 1
    /\ job' = [IdleJob EXCEPT !.pc = "sync_fetch", !.route = "sync",
                              !.seq = job.seq + 1, !.triggered = TRUE]
    /\ UNCHANGED <<urls, now, version, req, env, matches, meta, linked>>

\* GET /api/matches up to the decision to synchronize; metaOk tells whether
\* the select of sync_metadata returned the row (its error is not looked at).
MatchesRequest(metaOk) ==
    LET lastSync == IF metaOk THEN meta.last_successful_sync ELSE Absent IN
    /\ job.pc \in {"idle", "done"}
    /\ quota > 0
    /\ Authorised
    /\ quota' = quota - 1
    /\ job' = [IdleJob EXCEPT
                 !.pc = IF SyncNeeded(lastSync) THEN "sync_fetch" ELSE "matches_select",
                 !.route = "matches", !.seq = job.seq + 1,
                 !.triggered = SyncNeeded(lastSync)]
    /\ UNCHANGED <<urls, now, version, req, env, matches, meta, linked>>

\* synchronizeMatchesData: Promise.all of the fetches settles.
SyncFetch(fetched) ==
    /\ job.pc = "sync_fetch"
    /\ job' = IF ~fetched.ok THEN Returned(job, "failure")
              ELSE IF fetched.found = {} THEN Returned(job, "success")
              ELSE [job EXCEPT !.pc = "sync_select", !.allNewMatches = fetched.found]
    /\ UNCHANGED <<matches, meta>>
    /\ JobFrame

\* synchronizeMatchesData: select('matchId, broadcastChannels') returns.
SyncSelect(ok) ==
    /\ job.pc = "sync_select"
    /\ job' = IF ok THEN [job EXCEPT !.pc = "sync_upsert", !.existingMap = matches]
              ELSE Returned(job, "failure")
    /\ UNCHANGED <<matches, meta>>
    /\ JobFrame

\* synchronizeMatchesData: the upsert of matchesToUpsert returns.
SyncUpsert(ok) ==
    /\ job.pc = "sync_upsert"
    /\ IF ok
       THEN /\ matches' = [m \in MatchIds |->
                             IF m \in job.allNewMatches
                             THEN Row(IF job.existingMap[m].exists
                                      THEN job.existingMap[m].broadcastChannels
                                      ELSE <<>>)
                             ELSE matches[m]]
            /\ job' = [job EXCEPT !.pc = "sync_meta"]
       ELSE /\ matches' = matches
            /\ job' = Returned(job, "failure")
    /\ UNCHANGED meta
    /\ JobFrame

\* synchronizeMatchesData: the update of last_successful_sync returns; its
\* error is logged only.
SyncMeta(ok) ==
    /\ job.pc = "sync_meta"
    /\ meta' = IF ok THEN [meta EXCEPT !.last_successful_sync = Some(now)] ELSE meta
    /\ job' = Returned(job, "success")
    /\ UNCHANGED matches
    /\ JobFrame

\* GET /api/matches: the select of the matches returns and the response is sent.
MatchesSelect(ok) ==
    /\ job.pc = "matches_select"
    /\ job' = [job EXCEPT !.pc = "done", !.status = IF ok THEN 200 ELSE 500,
                          !.doneAt = now]
    /\ UNCHANGED <<matches, meta>>
    /\ JobFrame

\* POST /api/link { matchId, channelIds }: one update of the row; without a
\* row .single() returns an error and 500 is sent.
Link(matchId, channelIds) ==
    /\ quota > 0
    /\ Authorised
    /\ quota' = quota - 1
    /\ IF matches[matchId].exists
       THEN /\ matches' = [matches EXCEPT ![matchId] = Row(channelIds)]
            /\ linked' = [linked EXCEPT ![matchId] = Some(channelIds)]
       ELSE UNCHANGED <<matches, linked>>
    /\ UNCHANGED <<urls, now, version, req, env, meta, job>>

\* An hour passes.
Pass ==
    /\ now < MaxHours
    /\ now' = now + 1
    /\ UNCHANGED <<urls, version, quota, req, env, matchVars>>

\* broadcastChannels as first stored: those of the rows the table starts with.
FirstStored ==
    [m \in MatchIds |->
        IF matches[m].exists THEN Some(matches[m].broadcastChannels) ELSE Absent]

\* Sync specification: a matches table with or without rows, then requests of
\* /api/sync and /api/link in any interleaving.
InitSync ==
    /\ urls = <<>>
    /\ now = 0
    /\ version = 0
    /\ quota = 3
    /\ req = InitReq
    /\ env = ConfiguredEnv
    /\ matches \in [MatchIds -> {NoRow, Row(<<>>), Row(<<"c1">>)}]
    /\ meta = [last_successful_sync |-> Absent]
    /\ job = IdleJob
    /\ linked = FirstStored

NextSync ==
    \/ SyncRequest
    \/ \E fetched \in FetchOutcomes : SyncFetch(fetched)
    \/ \E ok \in BOOLEAN : SyncSelect(ok)
    \/ \E ok \in BOOLEAN : SyncUpsert(ok)
    \/ \E ok \in BOOLEAN : SyncMeta(ok)
    \/ \E m \in MatchIds, channelIds \in ChannelIdInputs : Link(m, channelIds)

SpecSync == InitSync /\ [][NextSync]_vars

\* Matches specification: a matches table synchronized an hour ago or never,
\* then requests of /api/matches, one after the other, while hours pass.
InitMatches ==
    /\ urls = <<>>
    /\ now = 1
    /\ version = 0
    /\ quota = 3
    /\ req = InitReq
    /\ env = ConfiguredEnv
    /\ matches \in {[m \in MatchIds |-> NoRow],
                    [m \in MatchIds |-> IF m = "m1" THEN Row(<<"c1">>) ELSE NoRow]}
    /\ meta \in {[last_successful_sync |-> t] : t \in {Absent, Some(0)}}
    /\ job = IdleJob
    /\ linked = FirstStored

NextMatches ==
    \/ \E metaOk \in BOOLEAN : MatchesRequest(metaOk)
    \/ \E fetched \in FetchOutcomes : SyncFetch(fetched)
    \/ \E ok \in BOOLEAN : SyncSelect(ok)
    \/ \E ok \in BOOLEAN : SyncUpsert(ok)
    \/ \E ok \in BOOLEAN : SyncMeta(ok)
    \/ \E ok \in BOOLEAN : MatchesSelect(ok)
    \/ Pass

SpecMatches == InitMatches /\ [][NextMatches]_vars

\* ------------------------------------------------------------------ claims
\* Request p has been answered by the handler `kind` with HTTP status `status`.
Answered200(p, kind) ==
    req[p].pc = "done" /\ req[p].op = kind /\ req[p].res.status = 200

\* The stored entry a record of the ranked view was derived from.
StoredOf(p, r) == req[p].channel[r.index + 1]

\* The ranked view lists each stored entry exactly once.
IsPermutation(p) ==
    LET v == req[p].res.urls IN
    /\ Len(v) = Len(req[p].channel)
    /\ {v[i].index : i \in 1..Len(v)} = 0..(Len(v) - 1)

\* C1: the list returned by GET /api/channels/:id/urls holds every stored entry
\* once, every record with isHealthy true before every record with isHealthy
\* false, each health group in non-decreasing order of the records' priority,
\* and records of equal health and priority in ascending order of stored index.
C1_RankedOrder ==
    \A p \in Procs :
        Answered200(p, "urls") =>
            LET v == req[p].res.urls IN
            /\ IsPermutation(p)
            /\ \A i, j \in 1..Len(v) :
                   i < j =>
                     /\ v[j].isHealthy => v[i].isHealthy
                     /\ v[i].isHealthy = v[j].isHealthy => v[i].priority <= v[j].priority
                     /\ (v[i].isHealthy = v[j].isHealthy /\ v[i].priority = v[j].priority)
                            => v[i].index < v[j].index

\* C1 witness: a view with both health groups, a priority tie kept in stored
\* order, and an order that is not the stored one.
C1_Witness ==
    \E p \in Procs :
        /\ Answered200(p, "urls")
        /\ LET v == req[p].res.urls IN
           /\ Len(v) = 3
           /\ v[1].isHealthy /\ ~v[3].isHealthy
           /\ v[1].isHealthy = v[2].isHealthy /\ v[1].priority = v[2].priority
           /\ v[1].index > v[3].index

\* The stored entries are all healthy and carry explicit, pairwise distinct
\* priorities.
DistinctExplicitPriorities(stored) ==
    /\ \A i \in 1..Len(stored) : Has(stored[i].priority) /\ stored[i].isHealthy = "true"
    /\ \A i, j \in 1..Len(stored) :
           i # j => Val(stored[i].priority) # Val(stored[j].priority)

\* C2: for a channel whose entries are all healthy with explicit, pairwise
\* distinct priorities (0 included), the ranked view is in ascending order of
\* the stored priority.
C2_AscendingStoredPriority ==
    \A p \in Procs :
        (Answered200(p, "urls") /\ DistinctExplicitPriorities(req[p].channel)) =>
            LET v == req[p].res.urls IN
            \A i, j \in 1..Len(v) :
                i < j => Val(StoredOf(p, v[i]).priority) < Val(StoredOf(p, v[j]).priority)

\* C3: the priority of the record derived from the stored entry at index i is
\* the entry's own priority whenever it has one (0 and negative values
\* included), and i only when the entry has none.
C3_PriorityAsStored ==
    \A p \in Procs :
        Answered200(p, "urls") =>
            LET v == req[p].res.urls IN
            \A i \in 1..Len(v) :
                v[i].priority = IF Has(StoredOf(p, v[i]).priority)
                                THEN Val(StoredOf(p, v[i]).priority)
                                ELSE v[i].index

\* The entries a failure report of request p may still offer: JavaScript indices
\* other than the reported one whose isHealthy, in `list`, is anything but false.
StillOffered(p, list) ==
    {i \in 0..(Len(list) - 1) :
        i # Val(req[p].urlIndex) /\ list[i + 1].isHealthy \in {"absent", "true", "null"}}

\* C4: only a stored isHealthy of exactly false makes an entry unhealthy: a
\* record of the ranked view is unhealthy exactly when its stored isHealthy is
\* false, and a failure report offers a nextUrl, and counts in
\* remainingHealthyUrls, every other entry whose isHealthy is absent, true or
\* any value but false.
C4_OnlyFalseIsUnhealthy ==
    \A p \in Procs :
        /\ Answered200(p, "urls") =>
              \A i \in 1..Len(req[p].res.urls) :
                  LET r == req[p].res.urls[i] IN
                  r.isHealthy = (StoredOf(p, r).isHealthy \in {"absent", "true", "null"})
        /\ Answered200(p, "report") =>
              /\ Has(req[p].res.nextUrl) = (StillOffered(p, req[p].updatedUrls) # {})
              /\ Has(req[p].res.nextUrl) =>
                     Val(req[p].res.nextUrl).isHealthy \in {"absent", "true", "null"}
              /\ req[p].res.remainingHealthyUrls
                     = Cardinality(StillOffered(p, req[p].updatedUrls))

\* C4 witness: a failure report answered with a nextUrl whose isHealthy was
\* never stored, while another remaining entry holds a non-boolean value.
C4_Witness ==
    \E p \in Procs :
        /\ Answered200(p, "report")
        /\ Has(req[p].res.nextUrl)
        /\ Val(req[p].res.nextUrl).isHealthy = "absent"
        /\ req[p].res.remainingHealthyUrls = 2
        /\ \E i \in 1..Len(urls) : urls[i].isHealthy = "null"

\* The stored list is what request p read, but for the named fields of the
\* reported entry.
OnlyReportedEntryChanged(p) ==
    LET k == Val(req[p].urlIndex) + 1 IN
    /\ Len(urls) = Len(req[p].channel)
    /\ \A i \in 1..Len(urls) : i # k => urls[i] = req[p].channel[i]
    /\ \A f \in {"url", "quality", "priority", "error", "statusCode"} :
           urls[k][f] = req[p].channel[k][f]
    /\ urls[k].isHealthy = "false"
    /\ urls[k].lastChecked = Some(req[p].callTime)

\* C5 as claimed: after a successful failure report the stored list is the one
\* read, except that the reported entry has isHealthy false, lastChecked the
\* time of the call and lastError the supplied error, the default message
\* standing in only when no error is supplied.
C5_SuppliedErrorStored ==
    \A p \in Procs :
        (Answered200(p, "report") /\ version = req[p].writeVer) =>
            /\ OnlyReportedEntryChanged(p)
            /\ urls[Val(req[p].urlIndex) + 1].lastError =
                   IF Has(req[p].urlError) THEN req[p].urlError
                   ELSE Some("Player reported failure")

\* C5 amended: as above, with lastError the supplied error when it is a
\* non-empty text, and the default message when the error is missing or empty.
C5_ReportFrame ==
    \A p \in Procs :
        (Answered200(p, "report") /\ version = req[p].writeVer) =>
            /\ OnlyReportedEntryChanged(p)
            /\ urls[Val(req[p].urlIndex) + 1].lastError =
                   IF req[p].urlError \in {Absent, Some("")}
                   THEN Some("Player reported failure")
                   ELSE req[p].urlError

\* C5 witness: a report with an error text on the second of two entries, the
\* first entry and the reported entry's priority still as stored.
C5_Witness ==
    \E p \in Procs :
        /\ Answered200(p, "report")
        /\ req[p].urlIndex = Some(1)
        /\ req[p].urlError = Some("timeout")
        /\ Len(urls) >= 2
        /\ urls[2].lastError = Some("timeout")
        /\ urls[2].priority = Some(-1)
        /\ urls[1].isHealthy = "null"

\* C6: the nextUrl of a failure report is the first entry in stored order,
\* other than the reported one, whose isHealthy is not false, whatever the
\* priorities; it is null when there is no such entry.
C6_NextUrlInStoredOrder ==
    \A p \in Procs :
        Answered200(p, "report") =>
            LET c == StillOffered(p, req[p].updatedUrls) IN
            IF c = {} THEN req[p].res.nextUrl = Absent
            ELSE \E i \in c :
                    /\ \A j \in c : i <= j
                    /\ req[p].res.nextUrl = Some(req[p].updatedUrls[i + 1])

\* C6 witness: the nextUrl returned is followed in storage by a healthy entry
\* that the ranked view would place before it.
C6_Witness ==
    \E p \in Procs :
        /\ Answered200(p, "report")
        /\ Has(req[p].res.nextUrl)
        /\ \E i, j \in StillOffered(p, urls) :
               /\ i < j
               /\ urls[i + 1] = Val(req[p].res.nextUrl)
               /\ Compare(ViewRecord(urls[j + 1], j), ViewRecord(urls[i + 1], i)) < 0

\* C7: remainingHealthyUrls is the number of entries, the reported one
\* excluded, whose isHealthy is not false in the list as written.
C7_RemainingCount ==
    \A p \in Procs :
        (Answered200(p, "report") /\ version = req[p].writeVer) =>
            req[p].res.remainingHealthyUrls =
                Cardinality({i \in 1..Len(urls) :
                                i # Val(req[p].urlIndex) + 1 /\ urls[i].isHealthy # "false"})

\* C7 witness: a report on a list that already held an unhealthy entry, one
\* entry remaining.
C7_Witness ==
    \E p \in Procs :
        /\ Answered200(p, "report")
        /\ Len(urls) = 2
        /\ req[p].res.remainingHealthyUrls = 1
        /\ \E i \in 1..Len(req[p].channel) : req[p].channel[i].isHealthy = "false"

\* urlIndex is missing or names no entry of the list request p read.
OutOfRange(p) ==
    \/ req[p].urlIndex = Absent
    \/ Val(req[p].urlIndex) < 0
    \/ Val(req[p].urlIndex) >= Len(req[p].channel)

\* C8: a failure report whose urlIndex is missing, negative or not below the
\* length of the stored list (any index when the list is empty) is answered
\* 400 and writes nothing: the stored list is unchanged.
C8_InvalidIndexRejected ==
    \A p \in Procs :
        (req[p].op = "report" /\ req[p].pc # "idle" /\ OutOfRange(p)) =>
            /\ req[p].pc = "done"
            /\ req[p].res.status = 400
            /\ req[p].writeVer = 0
            /\ version = req[p].readVer => urls = req[p].channel

\* C8 witness: a report with index 2 on a list of two entries was answered.
C8_Witness ==
    \E p \in Procs :
        /\ req[p].op = "report" /\ req[p].pc = "done"
        /\ req[p].urlIndex = Some(2)
        /\ Len(req[p].channel) = 2
        /\ req[p].res.status = 400

\* Requests p and q, a failure report or health check each, read the same
\* stored list before either wrote; p wrote first, q second, and nothing has
\* been written since; both were answered 200.
Raced(p, q) ==
    /\ p # q
    /\ \A r \in {p, q} : Answered200(r, "report") \/ Answered200(r, "check")
    /\ req[p].readVer = req[q].readVer
    /\ req[p].writeVer = req[p].readVer + 1
    /\ req[q].writeVer = req[p].writeVer + 1
    /\ version = req[q].writeVer

\* C9: when two such requests read the same stored list before either writes,
\* the stored list after both writes is exactly the second writer's list, built
\* from the list read, and the first writer's update is not in it: after two
\* reports on different indices the first reported entry is as it was read;
\* after a report then a health check the reported entry has the lastError it
\* was read with; after a health check then a report every entry but the
\* reported one is as it was read.
C9_LastWriteWins ==
    \A p, q \in Procs :
        Raced(p, q) =>
            /\ req[p].channel = req[q].channel
            /\ urls = req[q].updatedUrls
            /\ req[q].op = "report" =>
                   \A i \in 1..Len(urls) :
                       i # Val(req[q].urlIndex) + 1 => urls[i] = req[p].channel[i]
            /\ (req[q].op = "check" /\ req[p].op = "report") =>
                   LET k == Val(req[p].urlIndex) + 1 IN
                   urls[k].lastError = req[p].channel[k].lastError

\* C9 witness: two reports on different indices raced, and the entry the first
\* one reported is stored healthy and without any lastError.
C9_Witness ==
    \E p, q \in Procs :
        /\ Raced(p, q)
        /\ req[p].op = "report" /\ req[q].op = "report"
        /\ req[p].urlIndex # req[q].urlIndex
        /\ urls[Val(req[p].urlIndex) + 1].isHealthy = "true"
        /\ urls[Val(req[p].urlIndex) + 1].lastError = Absent

\* What a health check leaves on an entry whose probe answered, with the
\* statuses in lo..hi taken as healthy.
ProbedEntryOk(p, i, lo, hi) ==
    LET s == req[p].probes[i].status
        e == req[p].updatedUrls[i] IN
    /\ e.isHealthy = IF s >= lo /\ s <= hi THEN "true" ELSE "false"
    /\ e.statusCode = Some(s)
    /\ Has(e.lastChecked)
    /\ Val(e.lastChecked) >= req[p].callTime
    /\ version = req[p].writeVer => urls[i] = e

\* C10 as claimed: in a health check an entry whose probe answers with a status
\* in 200..399 ends with isHealthy true, any other status with isHealthy false,
\* and the entry records the status as statusCode and a new lastChecked.
C10_HealthyTo399 ==
    \A p \in Procs :
        Answered200(p, "check") =>
            \A i \in 1..Len(req[p].probes) :
                req[p].probes[i].kind = "response" => ProbedEntryOk(p, i, 200, 399)

\* C10 amended: the same with the healthy statuses being 200..299; a status in
\* 300..399, like any other, ends with isHealthy false.
C10_HealthyTo299 ==
    \A p \in Procs :
        Answered200(p, "check") =>
            \A i \in 1..Len(req[p].probes) :
                req[p].probes[i].kind = "response" => ProbedEntryOk(p, i, 200, 299)

\* C10 witness: a health check whose probes answered 200 and 404 has written
\* one healthy and one unhealthy entry.
C10_Witness ==
    \E p \in Procs :
        /\ Answered200(p, "check")
        /\ version = req[p].writeVer
        /\ Len(urls) = 2
        /\ req[p].probes[1] = Answered(200) /\ urls[1].isHealthy = "true"
        /\ req[p].probes[2] = Answered(404) /\ urls[2].isHealthy = "false"
        /\ urls[2].statusCode = Some(404)

\* The entry a health check p built at position i is the entry read, but for
\* isHealthy, lastChecked and the field the probe's outcome records.
OwnProbeOnly(p, i) ==
    LET e == req[p].updatedUrls[i]
        c == req[p].channel[i]
        o == req[p].probes[i] IN
    /\ \A f \in {"url", "quality", "priority", "lastError"} : e[f] = c[f]
    /\ e.isHealthy = IF o.kind = "response" /\ o.status \in 200..299
                     THEN "true" ELSE "false"
    /\ e.statusCode = IF o.kind = "response" THEN Some(o.status) ELSE c.statusCode
    /\ e.error = IF o.kind = "error" THEN Some("request failed") ELSE c.error
    /\ Has(e.lastChecked) /\ Val(e.lastChecked) >= req[p].callTime

\* C11: a probe that throws or times out makes its own entry unhealthy, with
\* an error description and a new lastChecked; the health check is still
\* answered 200, and what it records for each entry follows from that entry
\* as read and that entry's own probe outcome alone.
C11_ProbeFailureIsLocal ==
    \A p \in Procs :
        (req[p].op = "check" /\ req[p].pc = "done") =>
            /\ req[p].res.status = 200
            /\ Len(req[p].updatedUrls) = Len(req[p].probes)
            /\ \A i \in 1..Len(req[p].probes) :
                   /\ OwnProbeOnly(p, i)
                   /\ req[p].probes[i] = Threw =>
                          /\ req[p].updatedUrls[i].isHealthy = "false"
                          /\ Has(req[p].updatedUrls[i].error)
            /\ version = req[p].writeVer => urls = req[p].updatedUrls

\* C11 witness (Scenario D): the probe of entry 0 threw and that of entry 1
\* answered 200; entry 0 is stored unhealthy with an error, entry 1 healthy
\* with statusCode 200, and the summary is 2 / 1 / 1.
C11_Witness ==
    \E p \in Procs :
        /\ Answered200(p, "check")
        /\ version = req[p].writeVer
        /\ req[p].probes = <<Threw, Answered(200)>>
        /\ urls[1].isHealthy = "false" /\ Has(urls[1].error)
        /\ urls[2].isHealthy = "true" /\ urls[2].statusCode = Some(200)
        /\ req[p].res.healthySummary = [total |-> 2, healthy |-> 1, unhealthy |-> 1]

\* C12: whatever the probes' outcomes, a health check writes back a list of the
\* same length and order as the one it read, with the url, quality and
\* priority of every entry unchanged.
C12_CheckHealthFrame ==
    \A p \in Procs :
        Answered200(p, "check") =>
            /\ Len(req[p].updatedUrls) = Len(req[p].channel)
            /\ \A i \in 1..Len(req[p].channel) :
                   \A f \in {"url", "quality", "priority"} :
                       req[p].updatedUrls[i][f] = req[p].channel[i][f]
            /\ version = req[p].writeVer =>
                   /\ Len(urls) = Len(req[p].channel)
                   /\ \A i \in 1..Len(urls) :
                          \A f \in {"url", "quality", "priority"} :
                              urls[i][f] = req[p].channel[i][f]

\* C12 witness: a health check with one probe answered and one thrown has
\* written two entries that kept their url and priority.
C12_Witness ==
    \E p \in Procs :
        /\ Answered200(p, "check")
        /\ version = req[p].writeVer
        /\ req[p].probes = <<Answered(404), Threw>>
        /\ urls[1].url = "a" /\ urls[1].priority = Some(0)
        /\ urls[2].url = "b" /\ urls[2].priority = Some(1)

\* C13: the healthySummary of a health check counts the updated list: total is
\* the number of entries, healthy those with isHealthy true, unhealthy those
\* with isHealthy false, and healthy + unhealthy = total.
C13_SummaryCountsUpdated ==
    \A p \in Procs :
        Answered200(p, "check") =>
            LET s == req[p].res.healthySummary
                u == req[p].updatedUrls IN
            /\ s.total = Len(req[p].channel)
            /\ s.healthy = Cardinality({i \in 1..Len(u) : u[i].isHealthy = "true"})
            /\ s.unhealthy = Cardinality({i \in 1..Len(u) : u[i].isHealthy = "false"})
            /\ s.healthy + s.unhealthy = s.total

\* C13 witness: a summary of 2 / 1 / 1 where the unhealthy entry answered with
\* a status and did not throw.
C13_Witness ==
    \E p \in Procs :
        /\ Answered200(p, "check")
        /\ req[p].res.healthySummary = [total |-> 2, healthy |-> 1, unhealthy |-> 1]
        /\ \A i \in 1..2 : req[p].probes[i].kind = "response"

\* C14: when the select or the update of a health check or failure report
\* returns an error, the response is an error response, carrying neither
\* nextUrl nor healthySummary, and the store has applied no write: the stored
\* list is the one the request read.
C14_StoreFailureIsFatal ==
    \A p \in Procs :
        (req[p].op \in {"check", "report"}
            /\ (req[p].error # "none" \/ req[p].updateError)) =>
            /\ req[p].pc = "done"
            /\ req[p].res.status \in {404, 500}
            /\ req[p].res.nextUrl = Absent
            /\ req[p].res.healthySummary = NoSummary
            /\ req[p].writeVer = 0
            /\ version = req[p].readVer
            /\ req[p].updateError => urls = req[p].channel

\* C14 witness: the update of a health check with one healthy and one failed
\* probe was rejected; the request was answered 500 and the stored entries
\* carry no probe result.
C14_Witness ==
    \E p \in Procs :
        /\ req[p].op = "check" /\ req[p].updateError
        /\ req[p].res.status = 500
        /\ req[p].probes = <<Answered(200), Threw>>
        /\ urls = PanelList(2)
        /\ req[p].updatedUrls # urls

\* C15: a select error other than "no such channel" (the store cannot be
\* reached) is answered 500 by the ranked view, the health check and the
\* failure report, not 404.
C15_UnavailableIs500 ==
    \A p \in Procs :
        (req[p].pc = "done" /\ req[p].error = "unavailable") => req[p].res.status = 500

\* C16: a request whose channel id names no channel is answered 404 by each of
\* the three endpoints, starts no probe and writes nothing.
C16_UnknownChannel ==
    \A p \in Procs :
        (req[p].op \in {"urls", "check", "report"} /\ req[p].error = "not_found") =>
            /\ req[p].pc = "done"
            /\ req[p].res.status = 404
            /\ req[p].probes = <<>>
            /\ req[p].updatedUrls = <<>>
            /\ req[p].writeVer = 0
            /\ version = req[p].readVer

\* C16 witness: a health check of an unknown channel was answered 404 while
\* the stored channel has entries.
C16_Witness ==
    \E p \in Procs :
        /\ req[p].op = "check" /\ req[p].error = "not_found"
        /\ req[p].res.status = 404
        /\ Len(urls) = 2 /\ version = 0

\* C17: a failure report answers nextUrl null exactly when it answers
\* remainingHealthyUrls 0; a report on the only entry of a channel answers
\* nextUrl null and remainingHealthyUrls 0.
C17_NullExactlyWhenNoneRemain ==
    \A p \in Procs :
        Answered200(p, "report") =>
            /\ (req[p].res.nextUrl = Absent) <=> (req[p].res.remainingHealthyUrls = 0)
            /\ Len(req[p].channel) = 1 =>
                   (req[p].res.nextUrl = Absent /\ req[p].res.remainingHealthyUrls = 0)

\* C17 witness: a report on a list of several entries, the others all
\* unhealthy already, was answered nextUrl null and 0 remaining.
C17_Witness ==
    \E p \in Procs :
        /\ Answered200(p, "report")
        /\ Len(req[p].channel) = 3
        /\ \E i \in 1..3 : req[p].channel[i].isHealthy # "false"
        /\ req[p].res.nextUrl = Absent
        /\ req[p].res.remainingHealthyUrls = 0

\* C18: each record of the ranked view carries in index the position of its
\* entry in the stored list, the index values are 0..n-1 each once, and a
\* failure report of a record's index, with no write in between, marks
\* unhealthy the stored entry with the record's url and changes no other.
C18_IndexNamesStoredEntry ==
    LET view == req["r1"].res.urls
        stored == req["r1"].channel IN
    Answered200("r1", "urls") =>
        /\ Len(view) = Len(stored)
        /\ \A j \in 0..(Len(stored) - 1) :
               Cardinality({k \in 1..Len(view) : view[k].index = j}) = 1
        /\ \A k \in 1..Len(view) : stored[view[k].index + 1].url = view[k].url
        /\ (req["r2"].op = "report" /\ req["r2"].pc = "done") =>
               /\ req["r2"].res.status = 200
               /\ Len(urls) = Len(stored)
               /\ \E k \in 1..Len(view) :
                      /\ view[k].index = Val(req["r2"].urlIndex)
                      /\ \A i \in 1..Len(urls) :
                             IF urls[i].url = view[k].url
                             THEN urls[i].isHealthy = "false" /\ i = view[k].index + 1
                             ELSE urls[i] = stored[i]

\* C18 witness: the view put the last stored entry first, that record was
\* reported, and the last stored entry is the one now unhealthy.
C18_Witness ==
    /\ Answered200("r1", "urls")
    /\ Answered200("r2", "report")
    /\ Len(urls) = 3
    /\ req["r1"].res.urls[1].index = 2
    /\ req["r2"].urlIndex = Some(2)
    /\ req["r1"].channel[3].isHealthy # "false"
    /\ urls[3].isHealthy = "false"

\* C19: no step of the ranked view, the health check or the failure report
\* changes the length of the stored list or the url, quality or priority at
\* any position, and a step of the ranked view writes nothing to the store.
C19_StoredOrderKept ==
    [][/\ Len(urls') = Len(urls)
       /\ \A i \in 1..Len(urls) :
              /\ urls'[i].url = urls[i].url
              /\ urls'[i].quality = urls[i].quality
              /\ urls'[i].priority = urls[i].priority
       /\ \A p \in Procs :
              (req'[p] # req[p] /\ req'[p].op = "urls") =>
                  (urls' = urls /\ version' = version)]_vars

\* C19 witness: after a write made an entry unhealthy, a ranked view put the
\* second stored entry first while the store still holds the entries in
\* their original order, without lastChecked on the untouched entry.
C19_Witness ==
    \E p \in Procs :
        /\ Answered200(p, "urls")
        /\ version > 0 /\ version = req[p].readVer
        /\ Len(urls) = 2
        /\ req[p].res.urls[1].index = 1
        /\ urls[1].url = UrlNames[1] /\ urls[2].url = UrlNames[2]
        /\ urls[2].lastChecked = Absent

\* C20: every write of a health check or a failure report leaves the stored
\* list with the url values, in order, that it had immediately before the
\* write, whatever the administrator saved in the meantime.
C20_EngineWriteKeepsEntries ==
    [][\A p \in Procs :
          req'[p].writeVer # req[p].writeVer =>
              /\ Len(urls') = Len(urls)
              /\ \A i \in 1..Len(urls) : urls'[i].url = urls[i].url]_vars

\* Request q is a health check that read the list request p's health check
\* had just written, every probe settling as it did for p, and no write
\* has followed q's.
RepeatedCheck(p, q) ==
    /\ Answered200(p, "check")
    /\ Answered200(q, "check")
    /\ req[p].writeVer # 0
    /\ req[q].readVer = req[p].writeVer
    /\ version = req[q].writeVer
    /\ req[q].probes = req[p].probes

\* C21: a health check repeated at once with the same probe outcomes answers
\* the same healthySummary and leaves isHealthy of every entry as the first
\* check left it.
C21_CheckHealthIdempotent ==
    \A p, q \in Procs :
        RepeatedCheck(p, q) =>
            /\ req[q].res.healthySummary = req[p].res.healthySummary
            /\ Len(urls) = Len(req[q].channel)
            /\ \A i \in 1..Len(urls) : urls[i].isHealthy = req[q].channel[i].isHealthy

\* C21 witness: two successive health checks of two entries, the first probe
\* answering 200 and the second throwing both times.
C21_Witness ==
    \E p, q \in Procs :
        /\ p # q
        /\ RepeatedCheck(p, q)
        /\ req[q].probes = <<Answered(200), Threw>>
        /\ req[q].res.healthySummary = [total |-> 2, healthy |-> 1, unhealthy |-> 1]

\* Every probe of request p has settled.
AllSettled(p) == \A i \in DOMAIN req[p].probes : req[p].probes[i] # Pending

\* C22: a health check has one probe in flight per entry from the moment it
\* has read the list; while a probe is pending it has written nothing and sent
\* nothing; its only write is the step that answers it, taken once every
\* probe has settled, and every other step of it leaves the store alone.
C22_WriteAfterAllProbes ==
    /\ [](\A p \in Procs :
             req[p].op = "check" /\ req[p].error = "none" =>
                 /\ Len(req[p].probes) = Len(req[p].channel)
                 /\ ~AllSettled(p) =>
                        (req[p].pc = "check_probe" /\ req[p].writeVer = 0
                            /\ req[p].res = NoRes))
    /\ [][\A p \in Procs :
             (req'[p] # req[p] /\ req'[p].op = "check") =>
                 IF req'[p].res.status = 200
                 THEN /\ req[p].pc = "check_probe" /\ AllSettled(p)
                      /\ version' = version + 1
                      /\ req'[p].writeVer = version'
                      /\ urls' = req[p].updatedUrls
                 ELSE urls' = urls /\ version' = version]_vars

\* C22 witness: the probe of the second entry has settled while the probe of
\* the first is still pending, and nothing has been written.
C22_Witness ==
    \E p \in Procs :
        /\ req[p].pc = "check_probe"
        /\ req[p].probes = <<Pending, Answered(200)>>
        /\ req[p].updatedUrls[2].lastChecked # Absent
        /\ urls = req[p].channel /\ version = req[p].readVer

\* C23: every request of the ranked view, the health check or the failure
\* report that was accepted is eventually answered; an answered request
\* carries a response; and the response of a request is set by the step that
\* ends it and by no other.
C23_EveryRequestAnswered ==
    /\ \A p \in Procs : (req[p].pc # "idle") ~> (req[p].pc = "done")
    /\ [](\A p \in Procs : req[p].pc = "done" <=> req[p].res.status # 0)
    /\ [][\A p \in Procs :
             req'[p].res # req[p].res =>
                 /\ req'[p].pc = "done"
                 /\ req[p].pc # "done" \/ req'[p].callTime # req[p].callTime]_vars

\* C23 witness: a failure report whose update the store rejected has been
\* answered, with 500.
C23_Witness ==
    \E p \in Procs :
        /\ req[p].op = "report" /\ req[p].pc = "done"
        /\ req[p].updateError
        /\ req[p].res.status = 500
        /\ Len(req[p].channel) = 3

\* C24: in the documented player protocol every failure report marks
\* unhealthy the stored entry of the URL the player was playing, the record
\* at currentIndex of the list it fetched.
C24_PlayerReportsPlayedUrl ==
    (Answered200("r1", "urls") /\ req["r2"].op = "report" /\ req["r2"].pc = "done") =>
        LET played == req["r1"].res.urls[Val(req["r2"].urlIndex) + 1] IN
        /\ req["r2"].res.status = 200
        /\ \A i \in 1..Len(urls) :
               (urls[i] # req["r2"].channel[i]) => urls[i].url = played.url

\* Every entry of the stored list has been the subject of a successful
\* failure report (none carries lastError before), and no report is in flight.
AllReported ==
    /\ \A i \in 1..Len(urls) : Has(urls[i].lastError)
    /\ \A p \in Procs : req[p].pc \in {"idle", "done"}

\* C25: once a failure report has succeeded for every index of the list, in
\* any order, every stored entry has isHealthy false and the last response
\* has nextUrl null and remainingHealthyUrls 0; and a report's
\* remainingHealthyUrls is never above that of the report before it.
C25_ReportsExhaustList ==
    /\ AllReported =>
           /\ \A i \in 1..Len(urls) : urls[i].isHealthy = "false"
           /\ \A p \in Procs :
                  (Answered200(p, "report") /\ req[p].writeVer = version) =>
                      (req[p].res.nextUrl = Absent /\ req[p].res.remainingHealthyUrls = 0)
    /\ \A p, q \in Procs :
           (Answered200(p, "report") /\ Answered200(q, "report")
               /\ req[q].writeVer = req[p].writeVer + 1) =>
               req[q].res.remainingHealthyUrls <= req[p].res.remainingHealthyUrls

\* C25 witness: three entries reported in the order 2, 0, 1; the report before
\* the last had one URL remaining, the last none.
C25_Witness ==
    \E p, q \in Procs :
        /\ AllReported /\ Len(urls) = 3 /\ version = 3
        /\ Answered200(p, "report") /\ req[p].writeVer = 2 /\ req[p].urlIndex = Some(0)
        /\ req[p].res.remainingHealthyUrls = 1
        /\ Answered200(q, "report") /\ req[q].writeVer = 3 /\ req[q].urlIndex = Some(1)
        /\ req[q].res.remainingHealthyUrls = 0
        /\ urls[3].lastChecked = Some(1)

\* Request q is a failure report of the index request p had just reported,
\* read after p's write, and no write has followed q's.
RepeatedReport(p, q) ==
    /\ Answered200(p, "report")
    /\ Answered200(q, "report")
    /\ req[q].readVer = req[p].writeVer
    /\ req[q].writeVer = req[p].writeVer + 1
    /\ version = req[q].writeVer
    /\ req[q].urlIndex = req[p].urlIndex

\* C26: a failure report repeated at once for the same index answers the same
\* nextUrl and remainingHealthyUrls as the first and leaves isHealthy of
\* every entry as the first left it.
C26_ReportIdempotent ==
    \A p, q \in Procs :
        RepeatedReport(p, q) =>
            /\ req[q].res.nextUrl = req[p].res.nextUrl
            /\ req[q].res.remainingHealthyUrls = req[p].res.remainingHealthyUrls
            /\ Len(urls) = Len(req[q].channel)
            /\ \A i \in 1..Len(urls) : urls[i].isHealthy = req[q].channel[i].isHealthy

\* C26 witness: the middle entry of three, healthy at first, reported twice;
\* both answers name the first entry and count one remaining.
C26_Witness ==
    \E p, q \in Procs :
        /\ RepeatedReport(p, q)
        /\ Len(urls) = 3 /\ req[q].urlIndex = Some(1)
        /\ req[p].channel[2].isHealthy = "true"
        /\ Has(req[q].res.nextUrl) /\ Val(req[q].res.nextUrl).url = UrlNames[1]
        /\ req[q].res.remainingHealthyUrls = 1

\* C27: a health check removes no field of an entry: after its write every
\* entry still has the lastError it was read with; an entry whose probe
\* answered has isHealthy set by the status alone and still has the error it
\* was read with; an entry whose probe threw still has the statusCode it was
\* read with.
C27_CheckHealthKeepsRecords ==
    \A p \in Procs :
        (Answered200(p, "check") /\ version = req[p].writeVer) =>
            \A i \in 1..Len(req[p].channel) :
                /\ urls[i].lastError = req[p].channel[i].lastError
                /\ req[p].probes[i].kind = "response" =>
                       /\ urls[i].error = req[p].channel[i].error
                       /\ urls[i].isHealthy = "true" <=> ResponseOk(req[p].probes[i].status)
                /\ req[p].probes[i].kind = "error" =>
                       urls[i].statusCode = req[p].channel[i].statusCode

\* C27 witness: the first entry, unhealthy by a player's report, was probed
\* with answer 200: it is healthy and still carries the report's lastError.
C27_Witness ==
    \E p \in Procs :
        /\ Answered200(p, "check") /\ version = req[p].writeVer
        /\ Len(req[p].channel) = 2
        /\ req[p].channel[1].isHealthy = "false"
        /\ req[p].channel[1].lastError = Some("timeout")
        /\ req[p].probes[1] = Answered(200)
        /\ urls[1].isHealthy = "true"
        /\ urls[1].lastError = Some("timeout")

C29_SyncKeepsLinks ==
    (job.pc = "done" /\ job.route = "sync") =>
        \A m \in MatchIds :
            Has(linked[m]) => matches[m] = Row(Val(linked[m]))

\* The step accepts a GET /api/matches request.
MatchesAccepted == job'.seq # job.seq /\ job'.route = "matches"

\* C30: a GET /api/matches starts a sync only if last_successful_sync is
\* absent or more than 3 hours old, and starts none when the GET /api/matches
\* before it, answered less than 3 hours ago, ran a sync that returned success.
C30_SyncAtMostEveryThreeHours ==
    [][MatchesAccepted =>
          /\ job'.triggered => SyncNeeded(meta.last_successful_sync)
          /\ (job.pc = "done" /\ job.route = "matches" /\ job.triggered
                 /\ job.result = "success"
                 /\ now - job.doneAt < SYNC_INTERVAL_HOURS) => ~job'.triggered]_vars

=============================================================================
